---- MODULE Spec2Model ----
(***************************************************************************)
(* Planning-poker server (src/server/index.js): the in-memory game store,  *)
(* the HTTP endpoints, the socket.io handlers of one connection, the view  *)
(* (getGameState), the average and the hourly cleanup.                     *)
(***************************************************************************)
EXTENDS Integers, Sequences, FiniteSets, TLC

(***************************************************************************)
(* JavaScript values.  A value is a record of its typeof tag and a number: *)
(* a number is itself, a one-character string is its code point, so that   *)
(* `typeof card === 'number'` and `validCards.includes(card)` (SameValue-  *)
(* Zero: 5 and "5" differ) are computed, not assumed.                      *)
(***************************************************************************)
Num(n) == [type |-> "number", v |-> n]
Str(cp) == [type |-> "string", v |-> cp]
null == [type |-> "object", v |-> 0]
jsTrue == [type |-> "boolean", v |-> 1]

\* The code points of '?' and of the coffee cup U+2615.
QuestionMark == 63
Coffee == 9749

validCards ==
    { Num(n) : n \in {0, 1, 2, 3, 5, 8, 13, 21, 34, 55, 89} }
        \cup { Str(QuestionMark), Str(Coffee) }

oneHour == 60 * 60 * 1000

(***************************************************************************)
(* Bounds of the model.  Every specification below runs the same handlers; *)
(* they differ in the inputs the environment draws from.                   *)
(***************************************************************************)
\* socket ids: socket.io gives every connection a fresh id, here 1..MaxConns
MaxConns == 2
Conns == 1 .. MaxConns
NoConn == 0
\* the ids nanoid(6) can return, and the ids a client can name
GameIds == {"g1"}
Names == {"Alice", "Bob"}
\* the payloads of 'select-card': three valid cards, the README's 20 and `true`
CardInputs == {Num(5), Num(8), Str(QuestionMark), Num(20), jsTrue}
\* the values Date.now() takes: before and after the expiry threshold
Times == {0, oneHour + 1}

nullId == "null"
NoAverage == "null"

VARIABLES
    games,          \* the store: game id -> [id, players, revealed, createdAt]
    sockets,        \* socket id -> "idle" (not yet connected), "open", "closed"
    currentGameId,  \* the closure variable of each connection (nullId: null)
    currentPlayer,  \* the closure variable of each connection (<<>>: null)
    rooms,          \* socket.io: the rooms each socket has joined
    now,            \* Date.now()
    nextSweep,      \* when the setInterval timer is next due
    emitted,        \* the 'game-updated' events the last handler emitted
    errors,         \* the 'error' events the last handler emitted
    res,            \* the HTTP response of the last handler
    lastOp,         \* what the last handler was, and its input
    orphaned        \* history: the open sockets whose game (that of their last
                    \* join) the cleanup has removed since they joined it

vars == <<games, sockets, currentGameId, currentPlayer, rooms, now, nextSweep,
          emitted, errors, res, lastOp, orphaned>>

NoRes == [status |-> 0, gameId |-> <<>>, json |-> <<>>]

Op(op, c, gameId, name, card, ok, removed) ==
    [op |-> op, c |-> c, gameId |-> gameId, name |-> name, card |-> card,
     ok |-> ok, removed |-> removed, uncaught |-> FALSE]

\* the handler threw and nothing caught it: the Node process exits
Uncaught(op, c, gameId, name) ==
    [Op(op, c, gameId, name, null, FALSE, {}) EXCEPT !.uncaught = TRUE]

\* the process is running: no handler has thrown an uncaught exception
Running == ~lastOp.uncaught

\* `games` is a plain object ({}): games[key] of a key that is not its own
\* finds what Object.prototype has under that key, which is truthy and has no
\* `players`.  nanoid(6) returns six characters, none of these.
ObjectPrototypeKeys ==
    {"constructor", "__proto__", "toString", "valueOf", "hasOwnProperty",
     "isPrototypeOf", "propertyIsEnumerable", "toLocaleString"}

\* `!games[gameId]`
NoSuchGame(gameId) ==
    gameId \notin DOMAIN games /\ gameId \notin ObjectPrototypeKeys

\* games[gameId] is truthy and is not a game: games[gameId].players is
\* undefined and Object.keys(undefined) throws a TypeError
InheritedNotGame(gameId) ==
    gameId \notin DOMAIN games /\ gameId \in ObjectPrototypeKeys

(***************************************************************************)
(* calculateAverage and getGameState.                                      *)
(***************************************************************************)
\* (the filter without its typeof test)
NumericCards_AllSelected(game) ==
    { p \in DOMAIN game.players : game.players[p].card # null }

\* the ids of the players whose card passes the filter
NumericCards(game) ==
    { p \in DOMAIN game.players :
        game.players[p].card # null /\ game.players[p].card.type = "number" }

RECURSIVE SumCards(_, _)
SumCards(game, ids) ==
    IF ids = {} THEN 0
    ELSE LET p == CHOOSE q \in ids : TRUE
         IN  game.players[p].card.v + SumCards(game, ids \ {p})

\* (sum / length).toFixed(1): the nearest tenth, the larger one on a tie.
\* Exact for length < 20: a tie then has denominator 4 and is a double.
toFixed1(sum, length) ==
    LET tenths == (20 * sum + length) \div (2 * length)
    IN  ToString(tenths \div 10) \o "." \o ToString(tenths % 10)

calculateAverage(game) ==
    LET cards == NumericCards(game)
    IN  IF Cardinality(cards) = 0 THEN NoAverage
        ELSE toFixed1(SumCards(game, cards), Cardinality(cards))

\* (the card as it is stored)
sanitizedCard_Leaks(game, player) == player.card

\* `game.revealed ? player.card : (player.card !== null ? true : null)`
sanitizedCard(game, player) ==
    IF game.revealed THEN player.card
    ELSE IF player.card # null THEN jsTrue ELSE null

getGameState(gs, gameId) ==
    LET game == gs[gameId]
    IN  [id |-> game.id,
         players |-> [p \in DOMAIN game.players |->
                        [id |-> game.players[p].id,
                         name |-> game.players[p].name,
                         card |-> sanitizedCard(game, game.players[p])]],
         revealed |-> game.revealed,
         average |-> IF game.revealed THEN calculateAverage(game) ELSE NoAverage]

\* the sockets io.to(gameId) reaches, given the rooms each socket is in
Recipients(rs, gameId) == { s \in DOMAIN rs : gameId \in rs[s] }

GameUpdated(gs, rs, gameId) ==
    [room |-> gameId, to |-> Recipients(rs, gameId), state |-> getGameState(gs, gameId)]

ErrorTo(c, message) == [to |-> c, message |-> message]

(***************************************************************************)
(* Initial state: the server has started, nobody is connected.             *)
(***************************************************************************)
InitFor(conns) ==
    /\ games = <<>>
    /\ sockets = [c \in conns |-> "idle"]
    /\ currentGameId = [c \in conns |-> nullId]
    /\ currentPlayer = [c \in conns |-> <<>>]
    /\ rooms = [c \in conns |-> {}]
    /\ now = 0
    /\ nextSweep = oneHour
    /\ emitted = <<>>
    /\ errors = <<>>
    /\ res = NoRes
    /\ lastOp = Op("start", NoConn, nullId, "", null, TRUE, {})
    /\ orphaned = {}

(***************************************************************************)
(* HTTP endpoints.                                                         *)
(***************************************************************************)
\* (a game that carries a countdown)
NewGame_Counting(gameId) ==
    [id |-> gameId, players |-> <<>>, revealed |-> FALSE, createdAt |-> now,
     countdown |-> 3]

\* the game object of POST /games: these four properties and no other
NewGame(gameId) ==
    [id |-> gameId, players |-> <<>>, revealed |-> FALSE, createdAt |-> now]

\* games[gameId] = {...}: an assignment, whatever games[gameId] was
StoreGame(gameId) ==
    [g \in DOMAIN games \cup {gameId} |->
        IF g = gameId THEN NewGame(gameId) ELSE games[g]]

\* POST /games, nanoid(6) returning gameId
CreateGame(gameId) ==
    /\ games' = StoreGame(gameId)
    /\ res' = [status |-> 200, gameId |-> <<gameId>>, json |-> <<>>]
    /\ emitted' = <<>>
    /\ errors' = <<>>
    /\ lastOp' = Op("create", NoConn, gameId, "", null, TRUE, {})
    /\ UNCHANGED <<sockets, currentGameId, currentPlayer, rooms, now, nextSweep,
                   orphaned>>

\* the body of GET /games/:gameId for a game that exists
GameResponse(gameId) ==
    LET game == games[gameId]
    IN  [id |-> game.id,
         players |-> [p \in DOMAIN game.players |->
                        [id |-> game.players[p].id,
                         name |-> game.players[p].name,
                         card |-> IF game.revealed THEN game.players[p].card
                                  ELSE IF game.players[p].card # null
                                       THEN jsTrue ELSE null]],
         revealed |-> game.revealed,
         average |-> IF game.revealed THEN calculateAverage(game) ELSE NoAverage]

\* GET /games/:gameId
GetGame(gameId) ==
    /\ res' = IF NoSuchGame(gameId)
              THEN [status |-> 404, gameId |-> <<>>, json |-> <<>>]
              ELSE IF InheritedNotGame(gameId)
              \* Object.keys(game.players) throws; express answers 500
              THEN [status |-> 500, gameId |-> <<>>, json |-> <<>>]
              ELSE [status |-> 200, gameId |-> <<>>, json |-> <<GameResponse(gameId)>>]
    /\ emitted' = <<>>
    /\ errors' = <<>>
    /\ lastOp' = Op("get", NoConn, gameId, "", null, gameId \in DOMAIN games, {})
    /\ UNCHANGED <<games, sockets, currentGameId, currentPlayer, rooms, now, nextSweep,
                   orphaned>>

(***************************************************************************)
(* The handlers of one connection.                                         *)
(***************************************************************************)
\* io.on('connection'): the closure starts with both variables null
Connect(c) ==
    /\ sockets[c] = "idle"
    /\ sockets' = [sockets EXCEPT ![c] = "open"]
    /\ currentGameId' = [currentGameId EXCEPT ![c] = nullId]
    /\ currentPlayer' = [currentPlayer EXCEPT ![c] = <<>>]
    /\ emitted' = <<>>
    /\ errors' = <<>>
    /\ res' = NoRes
    /\ lastOp' = Op("connect", c, nullId, "", null, TRUE, {})
    /\ UNCHANGED <<games, rooms, now, nextSweep, orphaned>>

\* (no player is looked for)
existingPlayerWithSameName_None(gameId, playerName, c) == {}

\* the ids `find` can return: a player of that name under another id
existingPlayerWithSameName(gameId, playerName, c) ==
    { id \in DOMAIN games[gameId].players :
        /\ games[gameId].players[id].name = playerName
        /\ games[gameId].players[id].id # c }

\* (a socket that joins again keeps the card it had)
JoinedPlayers_KeepsCard(gameId, c, playerName, evicted) ==
    LET old == games[gameId].players
    IN  [p \in (DOMAIN old \ evicted) \cup {c} |->
            IF p # c THEN old[p]
            ELSE IF c \in DOMAIN old THEN [old[c] EXCEPT !.name = playerName]
            ELSE [id |-> c, name |-> playerName, card |-> null]]

\* games[gameId].players after `delete players[e]` for e in evicted and
\* `players[socket.id] = currentPlayer`
JoinedPlayers(gameId, c, playerName, evicted) ==
    LET old == games[gameId].players
    IN  [p \in (DOMAIN old \ evicted) \cup {c} |->
            IF p = c THEN [id |-> c, name |-> playerName, card |-> null]
            ELSE old[p]]

\* socket.on('join-game')
JoinGame(c, gameId, playerName) ==
    /\ sockets[c] = "open"
    /\ res' = NoRes
    /\ IF NoSuchGame(gameId)
       THEN /\ errors' = <<ErrorTo(c, "Game not found")>>
            /\ emitted' = <<>>
            /\ lastOp' = Op("join", c, gameId, playerName, null, FALSE, {})
            /\ UNCHANGED <<games, sockets, currentGameId, currentPlayer, rooms,
                           now, nextSweep, orphaned>>
       ELSE IF InheritedNotGame(gameId)
       \* `currentGameId = gameId`, then Object.keys(games[gameId].players)
       \* throws in the listener, where nothing catches it
       THEN /\ currentGameId' = [currentGameId EXCEPT ![c] = gameId]
            /\ errors' = <<>>
            /\ emitted' = <<>>
            /\ lastOp' = Uncaught("join", c, gameId, playerName)
            /\ orphaned' = orphaned \ {c}
            /\ UNCHANGED <<games, sockets, currentPlayer, rooms, now, nextSweep>>
       ELSE \E evicted \in SUBSET existingPlayerWithSameName(gameId, playerName, c) :
            \* `find` returns the first match in key order, or undefined
            /\ Cardinality(evicted) =
                 IF existingPlayerWithSameName(gameId, playerName, c) = {} THEN 0 ELSE 1
            /\ currentGameId' = [currentGameId EXCEPT ![c] = gameId]
            /\ currentPlayer' = [currentPlayer EXCEPT
                                   ![c] = <<[id |-> c, name |-> playerName]>>]
            /\ games' = [games EXCEPT
                           ![gameId].players = JoinedPlayers(gameId, c, playerName, evicted)]
            /\ rooms' = [rooms EXCEPT ![c] = @ \cup {gameId}]
            /\ emitted' = <<GameUpdated(games', rooms', gameId)>>
            /\ errors' = <<>>
            /\ lastOp' = Op("join", c, gameId, playerName, null, TRUE, {})
            /\ orphaned' = orphaned \ {c}
            /\ UNCHANGED <<sockets, now, nextSweep>>

\* `!currentGameId || !games[currentGameId]`
NotInActiveGame(c) ==
    currentGameId[c] = nullId \/ currentGameId[c] \notin DOMAIN games

\* `!currentGameId || !currentPlayer || !games[currentGameId]`
NotInActiveGameAsPlayer(c) ==
    currentGameId[c] = nullId \/ currentPlayer[c] = <<>>
        \/ currentGameId[c] \notin DOMAIN games

\* (the README's card set, which has a 20)
InvalidCard_Accepts20(card) == card \notin validCards \cup {Num(20)}

\* (the check left out)
InvalidCard_Never(card) == FALSE

\* `!validCards.includes(card)`
InvalidCard(card) == card \notin validCards

\* (the check left out)
PlayerNotFound_Never(c) == FALSE

\* `!games[currentGameId].players[socket.id]`
PlayerNotFound(c) == c \notin DOMAIN games[currentGameId[c]].players

\* (the card set on every player of the game)
SelectedPlayers_Everyone(c, card) ==
    LET old == games[currentGameId[c]].players
    IN  [p \in DOMAIN old |-> [old[p] EXCEPT !.card = card]]

\* games[currentGameId].players after `players[socket.id].card = card`
SelectedPlayers(c, card) ==
    LET old == games[currentGameId[c]].players
    IN  [p \in DOMAIN old |->
            IF p = c THEN [old[p] EXCEPT !.card = card] ELSE old[p]]

\* socket.on('select-card')
SelectCard(c, card) ==
    /\ sockets[c] = "open"
    /\ res' = NoRes
    /\ UNCHANGED <<sockets, currentGameId, currentPlayer, rooms, now, nextSweep,
                   orphaned>>
    /\ IF NotInActiveGameAsPlayer(c)
       THEN /\ errors' = <<ErrorTo(c, "Not in an active game")>>
            /\ emitted' = <<>>
            /\ lastOp' = Op("select", c, currentGameId[c], "", card, FALSE, {})
            /\ UNCHANGED games
       ELSE IF InvalidCard(card)
       THEN /\ errors' = <<ErrorTo(c, "Invalid card value")>>
            /\ emitted' = <<>>
            /\ lastOp' = Op("select", c, currentGameId[c], "", card, FALSE, {})
            /\ UNCHANGED games
       ELSE IF PlayerNotFound(c)
       THEN /\ errors' = <<ErrorTo(c, "Player not found in game")>>
            /\ emitted' = <<>>
            /\ lastOp' = Op("select", c, currentGameId[c], "", card, FALSE, {})
            /\ UNCHANGED games
       ELSE /\ games' = [games EXCEPT
                           ![currentGameId[c]].players = SelectedPlayers(c, card)]
            /\ emitted' = <<GameUpdated(games', rooms, currentGameId[c])>>
            /\ errors' = <<>>
            /\ lastOp' = Op("select", c, currentGameId[c], "", card, TRUE, {})

\* (the flag left as it is)
RevealedGame_Unset(game) == game

\* (the cards cleared too)
RevealedGame_ClearsCards(game) ==
    [game EXCEPT !.revealed = TRUE,
                 !.players = [p \in DOMAIN game.players |->
                                [game.players[p] EXCEPT !.card = null]]]

\* games[currentGameId] after `revealed = true`
RevealedGame(game) == [game EXCEPT !.revealed = TRUE]

\* socket.on('reveal-cards')
RevealCards(c) ==
    /\ sockets[c] = "open"
    /\ res' = NoRes
    /\ UNCHANGED <<sockets, currentGameId, currentPlayer, rooms, now, nextSweep,
                   orphaned>>
    /\ IF NotInActiveGame(c)
       THEN /\ errors' = <<ErrorTo(c, "Not in an active game")>>
            /\ emitted' = <<>>
            /\ lastOp' = Op("reveal", c, currentGameId[c], "", null, FALSE, {})
            /\ UNCHANGED games
       ELSE /\ games' = [games EXCEPT
                           ![currentGameId[c]] = RevealedGame(games[currentGameId[c]])]
            /\ emitted' = <<GameUpdated(games', rooms, currentGameId[c])>>
            /\ errors' = <<>>
            /\ lastOp' = Op("reveal", c, currentGameId[c], "", null, TRUE, {})

\* (the cards left as they are)
ResetGame_KeepsCards(game) == [game EXCEPT !.revealed = FALSE]

\* games[currentGameId] after `revealed = false` and every card set to null
ResetGame(game) ==
    [game EXCEPT !.revealed = FALSE,
                 !.players = [p \in DOMAIN game.players |->
                                [game.players[p] EXCEPT !.card = null]]]

\* socket.on('new-round')
NewRound(c) ==
    /\ sockets[c] = "open"
    /\ res' = NoRes
    /\ UNCHANGED <<sockets, currentGameId, currentPlayer, rooms, now, nextSweep,
                   orphaned>>
    /\ IF NotInActiveGame(c)
       THEN /\ errors' = <<ErrorTo(c, "Not in an active game")>>
            /\ emitted' = <<>>
            /\ lastOp' = Op("newRound", c, currentGameId[c], "", null, FALSE, {})
            /\ UNCHANGED games
       ELSE /\ games' = [games EXCEPT
                           ![currentGameId[c]] = ResetGame(games[currentGameId[c]])]
            /\ emitted' = <<GameUpdated(games', rooms, currentGameId[c])>>
            /\ errors' = <<>>
            /\ lastOp' = Op("newRound", c, currentGameId[c], "", null, TRUE, {})

\* 'start-countdown', which the second GameRoom client emits to reveal: the
\* server registers no listener for it, so socket.io drops the event
StartCountdown(c) ==
    /\ sockets[c] = "open"
    /\ emitted' = <<>>
    /\ errors' = <<>>
    /\ res' = NoRes
    /\ lastOp' = Op("startCountdown", c, currentGameId[c], "", null, FALSE, {})
    /\ UNCHANGED <<games, sockets, currentGameId, currentPlayer, rooms, now, nextSweep,
                   orphaned>>

\* (the players of the socket's name deleted, under whatever id)
RemainingPlayers_ByName(c) ==
    LET old == games[currentGameId[c]].players
    IN  [p \in { q \in DOMAIN old :
                    q # c /\ (currentPlayer[c] = <<>>
                                 \/ old[q].name # currentPlayer[c][1].name) } |->
            old[p]]

\* games[currentGameId].players after `delete players[socket.id]`
RemainingPlayers(c) ==
    LET old == games[currentGameId[c]].players
    IN  [p \in DOMAIN old \ {c} |-> old[p]]

\* (an empty game is kept)
NoPlayersLeft_Never(players) == FALSE

\* `Object.keys(players).length === 0`
NoPlayersLeft(players) == DOMAIN players = {}

\* (a delete that clears the whole store)
WithoutGames_Every(ids) == IF ids = {} THEN games ELSE <<>>

\* the store after `delete games[gameId]` for every gameId in ids
WithoutGames(ids) == [g \in DOMAIN games \ ids |-> games[g]]

\* socket.on('disconnect'): socket.io has taken the socket out of its rooms
\* before the handler runs
Disconnect(c) ==
    /\ sockets[c] = "open"
    /\ sockets' = [sockets EXCEPT ![c] = "closed"]
    /\ rooms' = [rooms EXCEPT ![c] = {}]
    /\ res' = NoRes
    /\ errors' = <<>>
    /\ orphaned' = orphaned \ {c}
    /\ UNCHANGED <<currentGameId, currentPlayer, now, nextSweep>>
    /\ IF NotInActiveGame(c)
       THEN /\ emitted' = <<>>
            /\ lastOp' = Op("disconnect", c, currentGameId[c], "", null, TRUE, {})
            /\ UNCHANGED games
       ELSE IF NoPlayersLeft(RemainingPlayers(c))
       THEN /\ games' = WithoutGames({currentGameId[c]})
            /\ emitted' = <<>>
            /\ lastOp' = Op("disconnect", c, currentGameId[c], "", null, TRUE,
                            {currentGameId[c]})
       ELSE /\ games' = [games EXCEPT ![currentGameId[c]].players = RemainingPlayers(c)]
            /\ emitted' = <<GameUpdated(games', rooms', currentGameId[c])>>
            /\ lastOp' = Op("disconnect", c, currentGameId[c], "", null, TRUE, {})

(***************************************************************************)
(* The clock and the hourly cleanup.                                       *)
(***************************************************************************)
\* (>= for >)
Expired_AtThreshold(game, t) == t - game.createdAt >= oneHour

\* (nothing ever expires)
Expired_Never(game, t) == FALSE

\* `now - games[gameId].createdAt > oneHour`
Expired(game, t) == t - game.createdAt > oneHour

\* the timers the server has pending: the cleanup interval is the only timer
\* it ever registers (no setTimeout, no other setInterval)
PendingTimers == {[callback |-> "cleanup", due |-> nextSweep, gameId |-> nullId]}

\* (a timer tick left over from an earlier round reveals the games)
Tick_RevealsGames(t) ==
    /\ t > now
    /\ now' = t
    /\ games' = [g \in DOMAIN games |-> [games[g] EXCEPT !.revealed = TRUE]]
    /\ emitted' = <<>>
    /\ errors' = <<>>
    /\ res' = NoRes
    /\ lastOp' = Op("tick", NoConn, nullId, "", null, TRUE, {})
    /\ UNCHANGED <<sockets, currentGameId, currentPlayer, rooms, nextSweep, orphaned>>

\* time passes: Date.now() never goes back
Tick(t) ==
    /\ t > now
    /\ now' = t
    /\ emitted' = <<>>
    /\ errors' = <<>>
    /\ res' = NoRes
    /\ lastOp' = Op("tick", NoConn, nullId, "", null, TRUE, {})
    /\ UNCHANGED <<games, sockets, currentGameId, currentPlayer, rooms, nextSweep,
                   orphaned>>

\* the open sockets whose closure still holds the id of a game in `removed`
OrphanedBy(removed) ==
    { c \in DOMAIN sockets : sockets[c] = "open" /\ currentGameId[c] \in removed }

\* the setInterval callback, run when the timer is due (or late)
Sweep ==
    /\ now >= nextSweep
    /\ nextSweep' = now + oneHour
    /\ games' = WithoutGames({ g \in DOMAIN games : Expired(games[g], now) })
    /\ emitted' = <<>>
    /\ errors' = <<>>
    /\ res' = NoRes
    /\ lastOp' = Op("sweep", NoConn, nullId, "", null, TRUE,
                    { g \in DOMAIN games : Expired(games[g], now) })
    /\ orphaned' = orphaned \cup OrphanedBy({ g \in DOMAIN games : Expired(games[g], now) })
    /\ UNCHANGED <<sockets, currentGameId, currentPlayer, rooms, now>>

\* one step of the server: a request, an event of a connection, or a timer
\* the HTTP routes and the socket listeners
HandlersFor(conns, gameIds, names, cards) ==
    \/ \E gameId \in gameIds : Running /\ CreateGame(gameId)
    \/ \E gameId \in gameIds : Running /\ GetGame(gameId)
    \/ \E c \in conns : Running /\ Connect(c)
    \/ \E c \in conns, gameId \in gameIds, playerName \in names :
          Running /\ JoinGame(c, gameId, playerName)
    \/ \E c \in conns, card \in cards : Running /\ SelectCard(c, card)
    \/ \E c \in conns : Running /\ RevealCards(c)
    \/ \E c \in conns : Running /\ StartCountdown(c)
    \/ \E c \in conns : Running /\ NewRound(c)
    \/ \E c \in conns : Running /\ Disconnect(c)

\* the clock and the cleanup interval
ClockFor(times) ==
    \/ \E t \in times : Running /\ Tick(t)
    \/ Running /\ Sweep

NextFor(conns, gameIds, names, cards, times) ==
    \/ HandlersFor(conns, gameIds, names, cards)
    \/ ClockFor(times)

Init == InitFor(Conns)
Next == NextFor(Conns, GameIds, Names, CardInputs, Times)

\* one room, two names, every kind of card
Spec == Init /\ [][Next]_vars

\* two rooms: what one room's handlers do to the other, and to the store
StoreConns == {1, 2}
StoreGameIds == {"g1", "g2"}
StoreNames == {"Alice"}
StoreCards == {Num(5), Num(20)}

InitStore == InitFor(StoreConns)
NextStore == NextFor(StoreConns, StoreGameIds, StoreNames, StoreCards, Times)
SpecStore == InitStore /\ [][NextStore]_vars

\* the cleanup at the threshold: rooms of age oneHour - 1, oneHour, oneHour + 1
SweepConns == {1}
SweepTimes == {0, 1, oneHour, oneHour + 1}
SweepCards == {Num(5)}

InitSweep == InitFor(SweepConns)
NextSweep == NextFor(SweepConns, StoreGameIds, StoreNames, SweepCards, SweepTimes)
SpecSweep == InitSweep /\ [][NextSweep]_vars

\* calculateAverage on every hand of NumAvgPlayers players, read by GET
NumAvgPlayers == 4
AvgPlayers == 1 .. NumAvgPlayers
AvgCards == {null, Num(0), Num(1), Num(3), Num(5), Num(8), Str(QuestionMark)}

InitAvg ==
    /\ \E hand \in [AvgPlayers -> AvgCards] :
          games = [g \in {"g1"} |->
                     [id |-> g,
                      players |-> [p \in AvgPlayers |->
                                     [id |-> p, name |-> "P" \o ToString(p),
                                      card |-> hand[p]]],
                      revealed |-> TRUE,
                      createdAt |-> 0]]
    /\ sockets = [c \in AvgPlayers |-> "open"]
    /\ currentGameId = [c \in AvgPlayers |-> "g1"]
    /\ currentPlayer = [c \in AvgPlayers |-> <<[id |-> c, name |-> "P" \o ToString(c)]>>]
    /\ rooms = [c \in AvgPlayers |-> {"g1"}]
    /\ now = 0
    /\ nextSweep = oneHour
    /\ emitted = <<>>
    /\ errors = <<>>
    /\ res = NoRes
    /\ lastOp = Op("start", NoConn, nullId, "", null, TRUE, {})
    /\ orphaned = {}

NextAvg == \E gameId \in StoreGameIds : GetGame(gameId)
SpecAvg == InitAvg /\ [][NextAvg]_vars

\* the cards the README lists and the cards the two GameRoom clients show
ReadmeCards == { Num(n) : n \in {0, 1, 2, 3, 5, 8, 13, 20} }
FIBONACCI_CARDS ==
    { Num(n) : n \in {0, 1, 2, 3, 5, 8, 13, 21, 34, 55, 89} }
        \cup { Str(QuestionMark), Str(Coffee) }
FIBONACCI_CARDS_Countdown ==
    { Num(n) : n \in {0, 1, 2, 3, 5, 8, 13, 21} }
        \cup { Str(QuestionMark), Str(Coffee) }
OfferedCards == ReadmeCards \cup FIBONACCI_CARDS \cup FIBONACCI_CARDS_Countdown

\* one player selecting each card that is offered, within the first hour
CardsConns == {1}
InitCards == InitFor(CardsConns)
NextCards == HandlersFor(CardsConns, GameIds, StoreNames, OfferedCards)
SpecCards == InitCards /\ [][NextCards]_vars

\* the cleanup over three periods: games are created during the first two
\* (the clock is cut off after the third), the timer callbacks always run in
\* the end, and the clients do what they like
LiveConns == {1}
LiveTimes == {oneHour + 1, 2 * oneHour + 2, 3 * oneHour + 3}
CreateUntil == oneHour + 1
InitLive == InitFor(LiveConns)
NextLive ==
    \/ \E gameId \in GameIds : Running /\ now <= CreateUntil /\ CreateGame(gameId)
    \/ \E gameId \in GameIds : Running /\ GetGame(gameId)
    \/ \E c \in LiveConns : Running /\ Connect(c)
    \/ \E c \in LiveConns, gameId \in GameIds, playerName \in StoreNames :
          Running /\ JoinGame(c, gameId, playerName)
    \/ \E c \in LiveConns, card \in SweepCards : Running /\ SelectCard(c, card)
    \/ \E c \in LiveConns : Running /\ RevealCards(c)
    \/ \E c \in LiveConns : Running /\ StartCountdown(c)
    \/ \E c \in LiveConns : Running /\ NewRound(c)
    \/ \E c \in LiveConns : Running /\ Disconnect(c)
    \/ ClockFor(LiveTimes)
\* time passes, and a timer that is due fires
Fairness ==
    /\ WF_vars(\E t \in LiveTimes : Running /\ Tick(t))
    /\ WF_vars(Running /\ Sweep)
SpecLive == InitLive /\ [][NextLive]_vars /\ Fairness

\* two rooms with two names each within the first hour; clients also name an
\* id that nanoid never returns and that Object.prototype has
RoomsConns == {1, 2}
RoomsGameIds == {"g1", "g2"}
RoomsNames == {"Alice", "Bob"}
RoomsCards == {Num(5)}
InheritedIds == {"constructor"}
InitRooms == InitFor(RoomsConns)
NextRooms ==
    \/ HandlersFor(RoomsConns, RoomsGameIds, RoomsNames, RoomsCards)
    \/ \E gameId \in InheritedIds : Running /\ GetGame(gameId)
    \/ \E c \in RoomsConns, gameId \in InheritedIds, playerName \in RoomsNames :
          Running /\ JoinGame(c, gameId, playerName)
SpecRooms == InitRooms /\ [][NextRooms]_vars

(***************************************************************************)
(* Properties.                                                             *)
(***************************************************************************)
\* what a view of a room that is not revealed may show of the stored players
ShowsOnlyMarkers(game, view) ==
    /\ view.revealed = FALSE
    /\ view.average = NoAverage
    /\ DOMAIN view.players = DOMAIN game.players
    /\ \A p \in DOMAIN game.players :
          /\ view.players[p].card \in {jsTrue, null}
          /\ view.players[p].card = jsTrue <=> game.players[p].card # null

\* C1: while a room is not revealed, every view of it (the payload of every
\* 'game-updated' event, every GET response, and the view any handler would
\* build in this state) shows for each player only the hidden marker `true`
\* (a card is selected) or null (none is), never a card, and a null average.
C1_HiddenUntilRevealed ==
    /\ \A g \in DOMAIN games :
          ~games[g].revealed =>
              /\ ShowsOnlyMarkers(games[g], getGameState(games, g))
              /\ ShowsOnlyMarkers(games[g], GameResponse(g))
    /\ \A i \in 1 .. Len(emitted) :
          ~games[emitted[i].room].revealed =>
              ShowsOnlyMarkers(games[emitted[i].room], emitted[i].state)
    /\ \A j \in 1 .. Len(res.json) :
          ~games[lastOp.gameId].revealed =>
              ShowsOnlyMarkers(games[lastOp.gameId], res.json[j])

\* a select was broadcast: one player's 8 is shown as `true`, another's
\* missing card as null
C1_Witness ==
    /\ lastOp.op = "select" /\ lastOp.ok
    /\ Len(emitted) = 1
    /\ ~emitted[1].state.revealed
    /\ \E p, q \in DOMAIN games[lastOp.gameId].players :
          /\ games[lastOp.gameId].players[p].card = Num(8)
          /\ emitted[1].state.players[p].card = jsTrue
          /\ emitted[1].state.players[q].card = null

\* the view broadcast by a reveal shows the room revealed and every player's
\* stored card as it is
RevealShowsCards ==
    (lastOp.op = "reveal" /\ lastOp.ok) =>
        /\ Len(emitted) = 1
        /\ emitted[1].room = lastOp.gameId
        /\ LET game == games[lastOp.gameId]
               view == emitted[1].state
           IN  /\ game.revealed
               /\ view.revealed = TRUE
               /\ DOMAIN view.players = DOMAIN game.players
               /\ \A p \in DOMAIN game.players :
                     /\ view.players[p].card = game.players[p].card
                     /\ view.players[p].name = game.players[p].name
               \* Alice selected 5, Bob selected 8
               /\ (/\ DOMAIN game.players = {1, 2}
                   /\ game.players[1] = [id |-> 1, name |-> "Alice", card |-> Num(5)]
                   /\ game.players[2] = [id |-> 2, name |-> "Bob", card |-> Num(8)])
                  => view.average = "6.5"

\* a player's stored card is the card that player last selected in this
\* round: it changes only to the card its own 'select-card' names, or to null
\* by a join or a new round
StoredCardIsLastSelection ==
    \A g \in DOMAIN games \cap DOMAIN games' :
        \A p \in DOMAIN games'[g].players :
            \/ /\ p \in DOMAIN games[g].players
               /\ games'[g].players[p].card = games[g].players[p].card
            \/ /\ lastOp'.op = "select" /\ lastOp'.c = p /\ lastOp'.gameId = g
               /\ games'[g].players[p].card = lastOp'.card
            \/ /\ lastOp'.op \in {"join", "newRound", "create"}
               /\ games'[g].players[p].card = null

\* C2: after a reveal the view has revealed = true and shows, for every
\* player of the room, the card that player last selected in this round (or
\* null); with Alice's 5 and Bob's 8 the average is "6.5".
C2_RevealShowsSelections ==
    []RevealShowsCards /\ [][StoredCardIsLastSelection]_vars

C2_Witness ==
    /\ lastOp.op = "reveal" /\ lastOp.ok
    /\ Len(emitted) = 1
    /\ emitted[1].state.revealed
    /\ DOMAIN emitted[1].state.players = {1, 2}
    /\ emitted[1].state.players[1] = [id |-> 1, name |-> "Alice", card |-> Num(5)]
    /\ emitted[1].state.players[2] = [id |-> 2, name |-> "Bob", card |-> Num(8)]
    /\ emitted[1].state.average = "6.5"

\* the cards of a game that are numbers, and their sum, player by player
NumberCardOf(game, p) ==
    IF p \in DOMAIN game.players /\ game.players[p].card \in validCards
          /\ game.players[p].card.type = "number"
    THEN <<game.players[p].card.v>> ELSE <<>>

RECURSIVE NumberCardsUpTo(_, _)
NumberCardsUpTo(game, k) ==
    IF k = 0 THEN <<>> ELSE NumberCardsUpTo(game, k - 1) \o NumberCardOf(game, k)

RECURSIVE SeqSum(_)
SeqSum(xs) == IF xs = <<>> THEN 0 ELSE Head(xs) + SeqSum(Tail(xs))

\* the cards of the players as a bag, whatever the players are
HandIs(game, hand) ==
    /\ Cardinality(DOMAIN game.players) = Len(hand)
    /\ \A i \in 1 .. Len(hand) :
          Cardinality({ p \in DOMAIN game.players : game.players[p].card = hand[i] })
              = Cardinality({ j \in 1 .. Len(hand) : hand[j] = hand[i] })

\* s is the mean of xs to the nearest tenth, written with one decimal
IsMeanToOneDecimal(s, xs) ==
    \E t \in 0 .. 10 * SeqSum(xs) + 10 :
        /\ 2 * (10 * SeqSum(xs) - t * Len(xs)) <= Len(xs)
        /\ 2 * (t * Len(xs) - 10 * SeqSum(xs)) <= Len(xs)
        /\ s = ToString(t \div 10) \o "." \o ToString(t % 10)

AverageIsMeanOfNumbers(game, average) ==
    LET xs == NumberCardsUpTo(game, NumAvgPlayers)
    IN  /\ IF xs = <<>> THEN average = NoAverage ELSE IsMeanToOneDecimal(average, xs)
        /\ HandIs(game, <<Num(3), Num(5), Num(8), null>>) => average = "5.3"
        /\ HandIs(game, <<null, null, null, null>>) => average = NoAverage
        /\ HandIs(game, <<Num(5), Num(8), Str(QuestionMark), null>>) => average = "6.5"

\* C3: the average is the mean of the number cards only (null, '?' and the
\* coffee cup count neither in the sum nor in the count), to one decimal; it
\* is null when no player has a number card.  3, 5, 8 and one player without
\* a card give "5.3"; no card at all gives null.
C3_AverageOfNumbers ==
    /\ \A g \in DOMAIN games : AverageIsMeanOfNumbers(games[g], calculateAverage(games[g]))
    /\ \A j \in 1 .. Len(res.json) :
          AverageIsMeanOfNumbers(games[lastOp.gameId], res.json[j].average)

C3_Witness ==
    /\ lastOp.op = "get"
    /\ Len(res.json) = 1
    /\ HandIs(games[lastOp.gameId], <<Num(3), Num(5), Num(8), null>>)
    /\ res.json[1].average = "5.3"

\* the last handler was 'select-card' with a payload outside the card set
InvalidSelect(op) == op.op = "select" /\ op.card \notin validCards

\* C4 as claimed: a select with a card outside the set fails with 'Invalid
\* card value' whatever the state of the connection, and changes no room.
C4_AlwaysInvalidCard ==
    [][InvalidSelect(lastOp') =>
          /\ errors' = <<ErrorTo(lastOp'.c, "Invalid card value")>>
          /\ emitted' = <<>>
          /\ games' = games]_vars

\* C4: a select with a card outside the set fails and changes no room; the
\* error is 'Invalid card value' when the connection has joined a game that
\* is still in the store, and 'Not in an active game' otherwise.
C4_InvalidCardRejected ==
    [][InvalidSelect(lastOp') =>
          /\ errors' = <<ErrorTo(lastOp'.c,
                           IF /\ currentGameId[lastOp'.c] # nullId
                              /\ currentGameId[lastOp'.c] \in DOMAIN games
                           THEN "Invalid card value"
                           ELSE "Not in an active game")>>
          /\ emitted' = <<>>
          /\ games' = games
          /\ ~lastOp'.ok]_vars

\* the README's 20 was refused to a player who holds a card
C4_Witness ==
    /\ InvalidSelect(lastOp)
    /\ lastOp.card = Num(20)
    /\ errors = <<ErrorTo(lastOp.c, "Invalid card value")>>
    /\ lastOp.gameId \in DOMAIN games
    /\ lastOp.c \in DOMAIN games[lastOp.gameId].players
    /\ games[lastOp.gameId].players[lastOp.c].card = Num(5)

\* C5: a select with a valid card from a connection that is not among the
\* players of the game it joined (it was evicted by a join under its name)
\* fails with 'Player not found in game', adds no player and changes no card.
C5_NonMemberSelectRejected ==
    [][(/\ lastOp'.op = "select"
        /\ lastOp'.card \in validCards
        /\ currentGameId[lastOp'.c] \in DOMAIN games
        /\ lastOp'.c \notin DOMAIN games[currentGameId[lastOp'.c]].players) =>
          /\ errors' = <<ErrorTo(lastOp'.c, "Player not found in game")>>
          /\ emitted' = <<>>
          /\ games' = games
          /\ ~lastOp'.ok]_vars

\* the evicted connection selected: its name is now another socket's
C5_Witness ==
    /\ lastOp.op = "select" /\ lastOp.card \in validCards
    /\ errors = <<ErrorTo(lastOp.c, "Player not found in game")>>
    /\ lastOp.gameId \in DOMAIN games
    /\ \E p \in DOMAIN games[lastOp.gameId].players :
          /\ p # lastOp.c
          /\ games[lastOp.gameId].players[p].name = currentPlayer[lastOp.c][1].name

\* C6: right after a successful new round, whatever the room was, it is not
\* revealed, every player's card is null, and the players and their names
\* are the same.
C6_NewRoundResets ==
    [][(lastOp'.op = "newRound" /\ lastOp'.ok) =>
          /\ lastOp'.gameId \in DOMAIN games /\ lastOp'.gameId \in DOMAIN games'
          /\ LET old == games[lastOp'.gameId]
                 new == games'[lastOp'.gameId]
             IN  /\ new.revealed = FALSE
                 /\ DOMAIN new.players = DOMAIN old.players
                 /\ \A p \in DOMAIN new.players :
                       /\ new.players[p].card = null
                       /\ new.players[p].name = old.players[p].name
                       /\ new.players[p].id = old.players[p].id]_vars

C6_Witness ==
    /\ lastOp.op = "newRound" /\ lastOp.ok
    /\ Cardinality(DOMAIN games[lastOp.gameId].players) = 2
    /\ Len(emitted) = 1
    /\ ~emitted[1].state.revealed
    /\ \A p \in DOMAIN emitted[1].state.players : emitted[1].state.players[p].card = null

\* C7: after connection c has joined a game under name n, exactly one player
\* of the game has name n, and it is c; so no game ever has two players of
\* one name.
C7_OnePlayerPerName ==
    /\ \A g \in DOMAIN games :
          \A p, q \in DOMAIN games[g].players :
              games[g].players[p].name = games[g].players[q].name => p = q
    /\ (lastOp.op = "join" /\ lastOp.ok) =>
          /\ { p \in DOMAIN games[lastOp.gameId].players :
                 games[lastOp.gameId].players[p].name = lastOp.name } = {lastOp.c}
          /\ games[lastOp.gameId].players[lastOp.c].id = lastOp.c

\* a join evicted the socket that had the name: it still gets the broadcast,
\* and a third name is untouched
C7_Witness ==
    /\ lastOp.op = "join" /\ lastOp.ok
    /\ Len(emitted) = 1
    /\ \E s \in emitted[1].to :
          /\ s \notin DOMAIN games[lastOp.gameId].players
          /\ currentPlayer[s] # <<>>
          /\ currentPlayer[s][1].name = lastOp.name

\* C8 as claimed: a disconnect removes every game the socket was the only
\* player of, and leaves every other game it was a player of in the store
\* without it, the other players as they were, with one broadcast.
C8_DisconnectLeavesEveryRoom ==
    [][lastOp'.op = "disconnect" =>
          \A g \in DOMAIN games :
              lastOp'.c \in DOMAIN games[g].players =>
                  IF DOMAIN games[g].players = {lastOp'.c}
                  THEN g \notin DOMAIN games'
                  ELSE /\ g \in DOMAIN games'
                       /\ games'[g].players =
                            [p \in DOMAIN games[g].players \ {lastOp'.c} |->
                                games[g].players[p]]
                       /\ Len(emitted') = 1
                       /\ emitted'[1].room = g]_vars

\* C9: the cleanup run at time now removes exactly the games with
\* now - createdAt > oneHour, with or without players, and leaves the others
\* (age oneHour - 1, age oneHour) as they were.
C9_SweepRemovesOlderThanOneHour ==
    [][lastOp'.op = "sweep" =>
          /\ DOMAIN games' =
               { g \in DOMAIN games : now - games[g].createdAt <= oneHour }
          /\ \A g \in DOMAIN games' : games'[g] = games[g]
          /\ lastOp'.removed =
               { g \in DOMAIN games : now - games[g].createdAt >= oneHour + 1 }]_vars

\* one cleanup removed a game and kept a game of age exactly oneHour that has
\* a player
C9_Witness ==
    /\ lastOp.op = "sweep"
    /\ lastOp.removed # {}
    /\ \E g \in DOMAIN games :
          /\ now - games[g].createdAt = oneHour
          /\ DOMAIN games[g].players # {}

\* a cleanup kept a game of age oneHour - 1
C9_WitnessYounger ==
    /\ lastOp.op = "sweep"
    /\ \E g \in DOMAIN games : now - games[g].createdAt = oneHour - 1

\* C10 as claimed: POST /games returns an id that no game in the store has,
\* stores an empty, unrevealed game under it, and leaves every game that was
\* in the store as it was.
C10_CreateIsFresh ==
    [][lastOp'.op = "create" =>
          /\ lastOp'.gameId \notin DOMAIN games
          /\ lastOp'.gameId \in DOMAIN games'
          /\ games'[lastOp'.gameId].players = <<>>
          /\ games'[lastOp'.gameId].revealed = FALSE
          /\ \A g \in DOMAIN games :
                /\ g \in DOMAIN games'
                /\ games'[g].players = games[g].players
                /\ games'[g].revealed = games[g].revealed]_vars

\* C11 as claimed: a join that names an id under which the store has no game
\* sends "Game not found" to the caller alone, and creates no game and no
\* player: the games, every socket's game and player, and the socket.io rooms
\* are as they were, and the server keeps running.
C11_JoinMissingRoomRejected ==
    [][(lastOp'.op = "join" /\ lastOp'.gameId \notin DOMAIN games) =>
          /\ errors' = <<ErrorTo(lastOp'.c, "Game not found")>>
          /\ emitted' = <<>>
          /\ ~lastOp'.uncaught
          /\ games' = games
          /\ currentGameId' = currentGameId
          /\ currentPlayer' = currentPlayer
          /\ rooms' = rooms]_vars

\* C12 as claimed: no socket id is a player of two different games.
C12_MemberOfOneRoom ==
    \A g1 \in DOMAIN games, g2 \in DOMAIN games :
        g1 # g2 => DOMAIN games[g1].players \cap DOMAIN games[g2].players = {}

\* C13 as claimed: once a socket has disconnected no game has a player under
\* its id.
C13_DisconnectedIsNowhere ==
    \A c \in DOMAIN sockets :
        sockets[c] = "closed" =>
            \A g \in DOMAIN games : c \notin DOMAIN games[g].players

\* a handler that succeeded in changing a game: a join, select-card,
\* reveal-cards or new-round that was not refused, or the disconnect of a
\* player of a game that has other players
SuccessfulMutation(op, gs) ==
    \/ op.ok /\ op.op \in {"join", "select", "reveal", "newRound"}
    \/ /\ op.op = "disconnect"
       /\ op.gameId \in DOMAIN gs
       /\ op.c \in DOMAIN gs[op.gameId].players
       /\ DOMAIN gs[op.gameId].players # {op.c}

\* C14 as claimed: a handler that succeeded in changing a game emits exactly
\* one 'game-updated', for that game, carrying the view of the game as the
\* handler left it; every other step emits no 'game-updated'.
C14_OneUpdatePerMutation ==
    [][IF SuccessfulMutation(lastOp', games)
       THEN /\ Len(emitted') = 1
            /\ emitted'[1].room = lastOp'.gameId
            /\ emitted'[1].state = getGameState(games', lastOp'.gameId)
       ELSE emitted' = <<>>]_vars

\* a join-game, select-card, reveal-cards or new-round that did not succeed
FailedRequest(op) ==
    op.op \in {"join", "select", "reveal", "newRound"} /\ ~op.ok

\* C15 as claimed: a request that fails is answered with exactly one 'error',
\* sent to the socket that made the request and to no other, with no
\* 'game-updated' to anyone, and the games are as they were.
C15_FailureIsOneErrorToCaller ==
    [][FailedRequest(lastOp') =>
          /\ Len(errors') = 1
          /\ errors'[1].to = lastOp'.c
          /\ emitted' = <<>>
          /\ games' = games]_vars

\* C16 as claimed: GET /games/:gameId answers not found exactly when the
\* store has no game under the id, and otherwise answers with the view that
\* a 'game-updated' for the game would carry in the same state (id, players
\* with sanitized cards, revealed, average); it changes no state.
C16_GetIsBroadcastView ==
    [][lastOp'.op = "get" =>
          /\ IF lastOp'.gameId \notin DOMAIN games
             THEN res'.status = 404 /\ res'.json = <<>>
             ELSE /\ res'.status = 200
                  /\ res'.json = <<getGameState(games, lastOp'.gameId)>>
          /\ UNCHANGED <<games, sockets, currentGameId, currentPlayer, rooms,
                         now, nextSweep>>]_vars

\* C17: a reveal-cards that is not refused leaves its game revealed whatever
\* the game was (also with no card selected), with the same players, names
\* and cards; on a game that is already revealed it changes nothing at all;
\* and it changes no other game.
C17_RevealIdempotent ==
    [][(lastOp'.op = "reveal" /\ lastOp'.ok) =>
          /\ lastOp'.gameId \in DOMAIN games
          /\ DOMAIN games' = DOMAIN games
          /\ games'[lastOp'.gameId].revealed = TRUE
          /\ games'[lastOp'.gameId].players = games[lastOp'.gameId].players
          /\ games[lastOp'.gameId].revealed => games' = games
          /\ \A g \in DOMAIN games \ {lastOp'.gameId} : games'[g] = games[g]]_vars

\* a game has just been revealed in which nobody has selected a card
C17_Witness ==
    /\ lastOp.op = "reveal" /\ lastOp.ok
    /\ games[lastOp.gameId].revealed
    /\ Cardinality(DOMAIN games[lastOp.gameId].players) = 2
    /\ \A p \in DOMAIN games[lastOp.gameId].players :
          games[lastOp.gameId].players[p].card = null
    /\ Len(emitted) = 1
    /\ emitted[1].state.revealed

\* C18: a select-card that is not refused changes, in the game of the
\* socket's last join, the card of the player stored under the socket's id
\* and nothing else: the revealed flag, the set of players, their ids and
\* names, the card of every other player, and every other game are as they
\* were.
C18_SelectChangesOnlyOwnCard ==
    [][(lastOp'.op = "select" /\ lastOp'.ok) =>
          LET g == lastOp'.gameId
              c == lastOp'.c
          IN  /\ g = currentGameId[c]
              /\ g \in DOMAIN games
              /\ DOMAIN games' = DOMAIN games
              /\ \A h \in DOMAIN games \ {g} : games'[h] = games[h]
              /\ games'[g].revealed = games[g].revealed
              /\ games'[g].id = games[g].id
              /\ games'[g].createdAt = games[g].createdAt
              /\ c \in DOMAIN games[g].players
              /\ DOMAIN games'[g].players = DOMAIN games[g].players
              /\ \A p \in DOMAIN games[g].players \ {c} :
                    games'[g].players[p] = games[g].players[p]
              /\ games'[g].players[c] =
                    [games[g].players[c] EXCEPT !.card = lastOp'.card]]_vars

\* a player has just selected a card in a game where another player has
\* selected none, while another game has a player with a card
C18_Witness ==
    /\ lastOp.op = "select" /\ lastOp.ok
    /\ lastOp.gameId \in DOMAIN games
    /\ lastOp.c \in DOMAIN games[lastOp.gameId].players
    /\ games[lastOp.gameId].players[lastOp.c].card = lastOp.card
    /\ \E p \in DOMAIN games[lastOp.gameId].players :
          p # lastOp.c /\ games[lastOp.gameId].players[p].card = null
    /\ \E h \in DOMAIN games \ {lastOp.gameId} :
          \E q \in DOMAIN games[h].players : games[h].players[q].card # null

\* a countdown is in progress on the game: the game object carries one, or a
\* timer is pending that ticks it
CountdownInProgress(g) ==
    \/ "countdown" \in DOMAIN games[g]
    \/ \E t \in PendingTimers : t.callback = "countdown" /\ t.gameId = g

\* C19: no game that is revealed has a countdown in progress, and neither its
\* view nor any 'game-updated' payload with revealed true has a `countdown`
\* property.
C19_RevealedHasNoCountdown ==
    /\ \A g \in DOMAIN games :
          games[g].revealed =>
              /\ ~CountdownInProgress(g)
              /\ "countdown" \notin DOMAIN getGameState(games, g)
    /\ \A i \in 1 .. Len(emitted) :
          emitted[i].state.revealed => "countdown" \notin DOMAIN emitted[i].state

\* a revealed game with a player, its view just broadcast
C19_Witness ==
    /\ Len(emitted) = 1
    /\ emitted[1].state.revealed
    /\ emitted[1].room \in DOMAIN games
    /\ games[emitted[1].room].revealed
    /\ DOMAIN games[emitted[1].room].players # {}

\* C20 as claimed: the countdown is a supported reveal trigger: once the
\* server has handled the 'start-countdown' of a socket whose game is in the
\* store and not revealed, a countdown is in progress on that game (its ticks
\* are broadcast and the last one reveals the game).
C20_StartCountdownCounts ==
    (/\ lastOp.op = "startCountdown"
     /\ lastOp.gameId \in DOMAIN games
     /\ ~games[lastOp.gameId].revealed)
        => CountdownInProgress(lastOp.gameId)

\* C21: a game goes from not revealed to revealed only in the step that
\* handles a reveal-cards for that game, so after a new-round it stays
\* unrevealed until such a request arrives: no clock tick, cleanup or other
\* handler reveals it, and a game that enters the store enters it unrevealed.
C21_RevealedOnlyByReveal ==
    [][\A g \in DOMAIN games' :
          games'[g].revealed =>
              \/ g \in DOMAIN games /\ games[g].revealed
              \/ /\ g \in DOMAIN games
                 /\ lastOp'.op = "reveal" /\ lastOp'.ok /\ lastOp'.gameId = g]_vars

\* a new-round has just reset a game that has a player, late enough for a
\* timer to have fired since the game was created
C21_Witness ==
    /\ lastOp.op = "newRound" /\ lastOp.ok
    /\ ~games[lastOp.gameId].revealed
    /\ DOMAIN games[lastOp.gameId].players # {}
    /\ now > games[lastOp.gameId].createdAt

\* C22 as claimed: once the cleanup has removed the game a socket is bound
\* to, and until the socket joins a game again, the socket gets no further
\* 'game-updated' for that game id, every
\* select-card, reveal-cards and new-round it sends is answered with one
\* 'error' to it and changes no game, and its disconnect changes no game and
\* emits nothing.
C22_SweptRoomStaysGone ==
    [][\A c \in orphaned :
          /\ ~(lastOp'.c = c /\ lastOp'.op = "join") =>
                \A i \in 1 .. Len(emitted') :
                    emitted'[i].room = currentGameId[c] => c \notin emitted'[i].to
          /\ (lastOp'.c = c /\ lastOp'.op \in {"select", "reveal", "newRound"}) =>
                /\ ~lastOp'.ok
                /\ Len(errors') = 1
                /\ errors'[1].to = c
                /\ emitted' = <<>>
                /\ games' = games
          /\ (lastOp'.c = c /\ lastOp'.op = "disconnect") =>
                /\ games' = games
                /\ emitted' = <<>>]_vars

\* a socket that is bound to a game in the store without being a player of it
NonMember(c) ==
    /\ sockets[c] = "open"
    /\ currentGameId[c] \in DOMAIN games
    /\ c \notin DOMAIN games[currentGameId[c]].players

\* C23 as claimed: a reveal-cards or new-round from a socket that is not a
\* player of the game it is bound to is refused with one 'error' to that
\* socket, and the game keeps its revealed flag and every card.
C23_NonMemberRevealRejected ==
    [][\A c \in DOMAIN sockets :
          (NonMember(c) /\ lastOp'.c = c /\ lastOp'.op \in {"reveal", "newRound"}) =>
              /\ ~lastOp'.ok
              /\ Len(errors') = 1
              /\ errors'[1].to = c
              /\ games' = games]_vars

\* C24 as claimed: a select-card by a player of the game succeeds for every
\* card the README lists and every card either client shows: the card is
\* stored as the player's card.
C24_OfferedCardsAccepted ==
    [][(/\ lastOp'.op = "select"
        /\ lastOp'.card \in OfferedCards
        /\ ~NotInActiveGameAsPlayer(lastOp'.c)
        /\ lastOp'.c \in DOMAIN games[currentGameId[lastOp'.c]].players) =>
          /\ lastOp'.ok
          /\ games'[lastOp'.gameId].players[lastOp'.c].card = lastOp'.card]_vars

\* C25: a join-game that names a game in the store succeeds whatever state
\* the game is in: afterwards the socket has exactly one player entry, under
\* its own id, with the name given and no card (also when it was a player
\* with a card before); the revealed flag is unchanged; and every other
\* player is as it was, except that one player of the same name may be gone.
C25_JoinResetsOwnCard ==
    [][(lastOp'.op = "join" /\ lastOp'.gameId \in DOMAIN games) =>
          LET g == lastOp'.gameId
              c == lastOp'.c
              old == games[g].players
              new == games'[g].players
          IN  /\ lastOp'.ok
              /\ errors' = <<>>
              /\ DOMAIN games' = DOMAIN games
              /\ games'[g].revealed = games[g].revealed
              /\ new[c] = [id |-> c, name |-> lastOp'.name, card |-> null]
              /\ DOMAIN new \subseteq DOMAIN old \cup {c}
              /\ \A p \in DOMAIN new \ {c} : new[p] = old[p]
              /\ \A p \in DOMAIN old \ DOMAIN new : old[p].name = lastOp'.name
              /\ Cardinality(DOMAIN old \ DOMAIN new) <= 1]_vars

\* a socket has just joined a revealed game in which another player has a
\* card
C25_Witness ==
    /\ lastOp.op = "join" /\ lastOp.ok
    /\ games[lastOp.gameId].revealed
    /\ games[lastOp.gameId].players[lastOp.c].card = null
    /\ \E p \in DOMAIN games[lastOp.gameId].players :
          p # lastOp.c /\ games[lastOp.gameId].players[p].card # null

\* C26 as claimed: every 'game-updated' goes to exactly the connected
\* players of its game: a socket that is no longer a player of the game
\* (evicted by a same-name join, or a player of another game since) is not
\* among the receivers.
C26_DeliveredToMembersOnly ==
    \A i \in 1 .. Len(emitted) :
        emitted[i].to =
            { c \in DOMAIN games[emitted[i].room].players : sockets[c] = "open" }

\* C27: every player stored in a game under key k has id k, and k is a
\* socket that has connected; its card is null or one of validCards; and
\* the revealed flag of every game is a boolean.
C27_PlayersWellFormed ==
    \A g \in DOMAIN games :
        /\ games[g].revealed \in BOOLEAN
        /\ \A k \in DOMAIN games[g].players :
              /\ games[g].players[k].id = k
              /\ k \in DOMAIN sockets
              /\ sockets[k] # "idle"
              /\ games[g].players[k].card \in validCards \cup {null}

\* a player who holds a card has just been refused a value that is not a card
C27_Witness ==
    /\ lastOp.op = "select" /\ ~lastOp.ok
    /\ lastOp.card \notin validCards
    /\ lastOp.gameId \in DOMAIN games
    /\ lastOp.c \in DOMAIN games[lastOp.gameId].players
    /\ games[lastOp.gameId].players[lastOp.c].card = Num(5)

\* C28: a game that is in the store with no player had no player before the
\* step or was created by it, and a game that has been joined has a player:
\* so a game in the store is empty only if nobody has joined it since it was
\* created, and the step in which the last player goes removes the game.
C28_EmptyOnlyIfNeverJoined ==
    [][/\ \A g \in DOMAIN games' :
             DOMAIN games'[g].players = {} =>
                 \/ g \in DOMAIN games /\ DOMAIN games[g].players = {}
                 \/ lastOp'.op = "create" /\ lastOp'.gameId = g
       /\ (lastOp'.op = "join" /\ lastOp'.ok) =>
             lastOp'.c \in DOMAIN games'[lastOp'.gameId].players]_vars

\* the only player of a game has just disconnected and the game is gone,
\* while a game nobody has joined is in the store
C28_Witness ==
    /\ lastOp.op = "disconnect"
    /\ lastOp.removed = {lastOp.gameId}
    /\ lastOp.gameId \notin DOMAIN games
    /\ \E g \in DOMAIN games : DOMAIN games[g].players = {}

\* C29 as claimed: while a game is revealed no select-card changes the card
\* of any of its players, so the values its view shows stay as they were at
\* the reveal until the next new-round.
C29_CardsFrozenWhileRevealed ==
    [][lastOp'.op = "select" =>
          \A g \in DOMAIN games \cap DOMAIN games' :
              games[g].revealed =>
                  \A p \in DOMAIN games[g].players \cap DOMAIN games'[g].players :
                      games'[g].players[p].card = games[g].players[p].card]_vars

\* C30 as claimed: a disconnect removes a game from the store only if the
\* socket was a player of that game just before and its only player: the
\* disconnect of a socket that is not a player of a game never removes it.
C30_DisconnectRemovesOwnRoomOnly ==
    [][lastOp'.op = "disconnect" =>
          \A g \in DOMAIN games \ DOMAIN games' :
              DOMAIN games[g].players = {lastOp'.c}]_vars

\* C31: a join-game (with its eviction), select-card, reveal-cards,
\* new-round, start-countdown or disconnect, handled for the game it names or
\* the socket is bound to, leaves every other game in the store exactly as it
\* was: its players, their cards and its revealed flag.
C31_RoomsIsolated ==
    [][lastOp'.op \in {"join", "select", "reveal", "newRound", "startCountdown",
                       "disconnect"} =>
          \A g \in DOMAIN games \ {lastOp'.gameId} :
              /\ g \in DOMAIN games'
              /\ games'[g].players = games[g].players
              /\ games'[g].revealed = games[g].revealed]_vars

\* the only player of a game has just disconnected and the game is gone,
\* while the other game is revealed and has a player with a card
C31_Witness ==
    /\ lastOp.op = "disconnect"
    /\ lastOp.removed = {lastOp.gameId}
    /\ \E g \in DOMAIN games \ {lastOp.gameId} :
          /\ games[g].revealed
          /\ \E p \in DOMAIN games[g].players : games[g].players[p].card = Num(5)

\* the socket was a player of the game it is bound to and another socket has
\* taken its place by joining under its name
Replaced(c) ==
    /\ NonMember(c)
    /\ currentPlayer[c] # <<>>
    /\ \E p \in DOMAIN games[currentGameId[c]].players :
          games[currentGameId[c]].players[p].name = currentPlayer[c][1].name

\* C32: when a socket whose place in its game was taken by a same-name join
\* disconnects afterwards, no game changes: the player that replaced it
\* stays, with its card, and the game stays in the store; the remaining
\* players are sent the unchanged view.
C32_LateDisconnectKeepsReplacement ==
    [][\A c \in DOMAIN sockets :
          (Replaced(c) /\ lastOp'.op = "disconnect" /\ lastOp'.c = c) =>
              /\ games' = games
              /\ lastOp'.removed = {}
              /\ Len(emitted') = 1
              /\ emitted'[1].state = getGameState(games, currentGameId[c])]_vars

\* a replaced socket has just disconnected, and the player under its name
\* holds a card
C32_Witness ==
    /\ lastOp.op = "disconnect"
    /\ sockets[lastOp.c] = "closed"
    /\ lastOp.gameId \in DOMAIN games
    /\ lastOp.c \notin DOMAIN games[lastOp.gameId].players
    /\ currentPlayer[lastOp.c] # <<>>
    /\ \E p \in DOMAIN games[lastOp.gameId].players :
          /\ games[lastOp.gameId].players[p].name = currentPlayer[lastOp.c][1].name
          /\ games[lastOp.gameId].players[p].card = Num(5)
          /\ sockets[p] = "open"

\* the game stored under g that was created at time t
RoomOf(g, t) == g \in DOMAIN games /\ games[g].createdAt = t

\* C33: when time passes and the cleanup keeps firing, every game that is
\* created is removed from the store in the end, whatever the clients do
\* with it; and no handler but POST /games gives a game its createdAt.
C33_EveryRoomIsRemoved ==
    /\ \A g \in GameIds : \A t \in {0} \cup LiveTimes :
          RoomOf(g, t) ~> ~RoomOf(g, t)
    /\ [][\A g \in DOMAIN games \cap DOMAIN games' :
             games'[g].createdAt # games[g].createdAt => lastOp'.op = "create"]_vars

\* the cleanup has just removed a game that a connected socket had joined
\* and was still bound to
C33_Witness ==
    /\ lastOp.op = "sweep"
    /\ lastOp.removed # {}
    /\ \E c \in orphaned : currentGameId[c] \in lastOp.removed
    /\ games = <<>>

====
